---- MODULE Spec2Model ----
(***************************************************************************)
(* LifeOps AI: the orchestrator LifeOpsCrew (crew_setup.py), its task      *)
(* builder (tasks.py) and agent container (agents.py).                     *)
(*                                                                         *)
(* Texts are TLA+ strings and the string operations of the code (lower,    *)
(* split, strip, join, substring test, f-string rendering) are computed    *)
(* character by character.  Two characters of the source are not ASCII and *)
(* are written with one ASCII character each that occurs nowhere else in   *)
(* the texts: U+2022 (bullet) is "*", U+2192 (arrow) is ">".               *)
(***************************************************************************)
EXTENDS Integers, Sequences, FiniteSets, TLC

VARIABLES
    api_key,        \* os.getenv("GOOGLE_API_KEY") of the process
    environ,        \* the keys of os.environ written by LifeOpsAgents.__init__
    user_context,   \* LifeOpsCrew.user_context
    backend,        \* what the generation backend does when a task is executed
    pc,             \* position of the run inside __init__ / kickoff
    trace,          \* the steps of the run, in the order they were executed
    report,         \* the value kickoff returned
    call,           \* the last direct call of a method, with its result
    earlier         \* the report of the session's previous run, if there was one

vars == <<api_key, environ, user_context, backend, pc, trace, report, call, earlier>>

-----------------------------------------------------------------------------
(* Bounds of the model *)

\* Longest coordination text, in lines, handed to the insight extractor.
MaxLines == 4

-----------------------------------------------------------------------------
(* Python string operations *)

Bullet == "*"

UpperChars == "ABCDEFGHIJKLMNOPQRSTUVWXYZ"
LowerChars == "abcdefghijklmnopqrstuvwxyz"
Whitespace == {" ", "\t", "\n", "\r"}

MinOf(S) == CHOOSE x \in S : \A y \in S : x <= y
MaxOf(S) == CHOOSE x \in S : \A y \in S : x >= y

CharAt(s, i) == SubSeq(s, i, i)

UpperSet == {CharAt(UpperChars, i) : i \in 1..26}
LowerTable == [c \in UpperSet |-> CharAt(LowerChars, CHOOSE i \in 1..26 : CharAt(UpperChars, i) = c)]

\* str.lower() on one character
LowerChar(c) == IF c \in UpperSet THEN LowerTable[c] ELSE c

RECURSIVE StrLower(_)
\* str.lower(): every character lowered, the string taken in halves
StrLower(s) ==
    IF Len(s) = 0 THEN ""
    ELSE IF Len(s) = 1 THEN LowerChar(s)
    ELSE LET half == Len(s) \div 2
         IN StrLower(SubSeq(s, 1, half)) \o StrLower(SubSeq(s, half + 1, Len(s)))

\* `k in s` for strings
StrContains(s, k) ==
    \E i \in 1..(Len(s) - Len(k) + 1) : SubSeq(s, i, i + Len(k) - 1) = k

RECURSIVE StrSplit(_, _)
\* s.split(sep): the pieces between the occurrences of sep, empty ones kept
StrSplit(s, sep) ==
    LET at == {i \in 1..(Len(s) - Len(sep) + 1) : SubSeq(s, i, i + Len(sep) - 1) = sep}
    IN IF at = {} THEN <<s>>
       ELSE LET i == MinOf(at)
            IN <<SubSeq(s, 1, i - 1)>> \o StrSplit(SubSeq(s, i + Len(sep), Len(s)), sep)

\* s.strip()
StrStrip(s) ==
    LET keep == {i \in 1..Len(s) : CharAt(s, i) \notin Whitespace}
    IN IF keep = {} THEN "" ELSE SubSeq(s, MinOf(keep), MaxOf(keep))

RECURSIVE StrJoin(_, _)
\* sep.join(items)
StrJoin(sep, items) ==
    IF items = <<>> THEN ""
    ELSE IF Len(items) = 1 THEN items[1]
    ELSE items[1] \o sep \o StrJoin(sep, Tail(items))

\* user_context.get(key, default)
Get(ctx, key, default) == IF key \in DOMAIN ctx THEN ctx[key] ELSE default

-----------------------------------------------------------------------------
(* LifeOpsCrew._extract_cross_domain_insights *)

Keywords ==
    <<"because", "therefore", "since", "thus", "consequently",
      "however", "although", "while", "whereas", "despite">>

LineMatches_caseSensitive(line) ==
    \/ \E n \in 1..Len(Keywords) : StrContains(line, Keywords[n])
    \/ StrContains(line, "stress") /\ (StrContains(line, "study") \/ StrContains(line, "finance"))
    \/ StrContains(line, "budget") /\ (StrContains(line, "health") \/ StrContains(line, "study"))
    \/ StrContains(line, "health") /\ (StrContains(line, "study") \/ StrContains(line, "finance"))

\* The if/elif chain of the loop body: every branch appends line.strip().
LineMatches(line) ==
    LET line_lower == StrLower(line)
    IN IF \E n \in 1..Len(Keywords) : StrContains(line_lower, Keywords[n]) THEN TRUE
       ELSE IF StrContains(line_lower, "stress")
               /\ (StrContains(line_lower, "study") \/ StrContains(line_lower, "finance")) THEN TRUE
       ELSE IF StrContains(line_lower, "budget")
               /\ (StrContains(line_lower, "health") \/ StrContains(line_lower, "study")) THEN TRUE
       ELSE IF StrContains(line_lower, "health")
               /\ (StrContains(line_lower, "study") \/ StrContains(line_lower, "finance")) THEN TRUE
       ELSE FALSE

\* The loop with the two kinds of rule as separate ifs: a line is appended once for the
\* keyword rule and once more for the co-occurrence rules.
RECURSIVE CollectLines_eachRule(_)
CollectLines_eachRule(lines) ==
    IF lines = <<>> THEN <<>>
    ELSE LET line_lower == StrLower(Head(lines))
             keyword == \E n \in 1..Len(Keywords) : StrContains(line_lower, Keywords[n])
             pair ==
                \/ StrContains(line_lower, "stress")
                   /\ (StrContains(line_lower, "study") \/ StrContains(line_lower, "finance"))
                \/ StrContains(line_lower, "budget")
                   /\ (StrContains(line_lower, "health") \/ StrContains(line_lower, "study"))
                \/ StrContains(line_lower, "health")
                   /\ (StrContains(line_lower, "study") \/ StrContains(line_lower, "finance"))
         IN (IF keyword THEN <<StrStrip(Head(lines))>> ELSE <<>>)
            \o (IF pair THEN <<StrStrip(Head(lines))>> ELSE <<>>)
            \o CollectLines_eachRule(Tail(lines))

RECURSIVE CollectLines(_)
CollectLines(lines) ==
    IF lines = <<>> THEN <<>>
    ELSE (IF LineMatches(Head(lines)) THEN <<StrStrip(Head(lines))>> ELSE <<>>)
         \o CollectLines(Tail(lines))

\* cross_domain_lines after the loop over coordination_output.split('\n')
CrossDomainLines(coordination_output) ==
    CollectLines(StrSplit(coordination_output, "\n"))

Insights_all(cross_domain_lines) == cross_domain_lines

\* insights = cross_domain_lines[:3]
Insights(cross_domain_lines) ==
    SubSeq(cross_domain_lines, 1, IF Len(cross_domain_lines) < 3 THEN Len(cross_domain_lines) ELSE 3)

Separator == " " \o Bullet \o " "

EmptyOutputInsight == "Cross-domain optimization applied based on your inputs."

StressInsight(stress) ==
    Bullet \o " Because your stress is high (" \o ToString(stress)
    \o "/10), we recommend reducing study intensity and allocating time for relaxation activities."

BudgetInsight(budget) ==
    Bullet \o " With a limited budget ($" \o ToString(budget)
    \o "), we suggest prioritizing free health activities and study resources."

ExamInsight(exam_days) ==
    Bullet \o " Since your exam is in " \o ToString(exam_days)
    \o " days, we recommend focused study sessions with adequate breaks to maintain health."

GenericInsight ==
    Bullet \o " Cross-domain optimization applied to balance your health, finance, and study goals."

ContextInsight_budgetFirst(ctx) ==
    LET stress == Get(ctx, "stress_level", 5)
        budget == Get(ctx, "monthly_budget", 2000)
        exam_days == Get(ctx, "days_until_exam", 30)
    IN IF budget < 1500 THEN BudgetInsight(budget)
       ELSE IF stress > 7 THEN StressInsight(stress)
       ELSE IF exam_days < 7 THEN ExamInsight(exam_days)
       ELSE GenericInsight

\* The branch after "Fallback: Create cross-domain insight based on user inputs"
ContextInsight(ctx) ==
    LET stress == Get(ctx, "stress_level", 5)
        budget == Get(ctx, "monthly_budget", 2000)
        exam_days == Get(ctx, "days_until_exam", 30)
    IN IF stress > 7 THEN StressInsight(stress)
       ELSE IF budget < 1500 THEN BudgetInsight(budget)
       ELSE IF exam_days < 7 THEN ExamInsight(exam_days)
       ELSE GenericInsight

\* The extractor without its guard on the empty text.
ExtractCrossDomainInsights_noEmptyGuard(ctx, coordination_output) ==
    LET cross_domain_lines == CrossDomainLines(coordination_output)
    IN IF cross_domain_lines # <<>>
       THEN Separator \o StrJoin(Separator, Insights(cross_domain_lines))
       ELSE ContextInsight(ctx)

ExtractCrossDomainInsights(ctx, coordination_output) ==
    IF coordination_output = "" THEN EmptyOutputInsight
    ELSE LET cross_domain_lines == CrossDomainLines(coordination_output)
         IN IF cross_domain_lines # <<>>
            THEN Separator \o StrJoin(Separator, Insights(cross_domain_lines))
            ELSE ContextInsight(ctx)

-----------------------------------------------------------------------------
(* Rendering of numbers in the f-strings *)

\* max(a, b) of Python: the first argument unless the second is greater
PyMax(a, b) == IF b > a THEN b ELSE a

\* budget * p of Python for an int budget and p in {0.2, 0.1, 0.05} (pct = 100 p) is a
\* double, and the f-string prints its shortest repr.  Where the double nearest the
\* product is not the decimal product itself, the repr shows it: the budgets of the
\* model for which it does, with the text Python prints.
InexactProducts ==
    (<<3, 20>> :> "0.6000000000000001") @@ (<<3, 10>> :> "0.30000000000000004")
    @@ (<<3, 5>> :> "0.15000000000000002")
    @@ (<<7, 20>> :> "1.4000000000000001") @@ (<<7, 10>> :> "0.7000000000000001")
    @@ (<<7, 5>> :> "0.35000000000000003")
    @@ (<<1203, 20>> :> "240.60000000000002") @@ (<<1203, 10>> :> "120.30000000000001")
    @@ (<<1203, 5>> :> "60.150000000000006")
    @@ (<<4999, 20>> :> "999.8000000000001") @@ (<<4999, 10>> :> "499.90000000000003")
    @@ (<<4999, 5>> :> "249.95000000000002")

\* str(budget * p): the printed double when it is inexact, else the decimal value of the
\* product with its trailing zeros dropped but one digit kept after the point
\* ("240.0", "74.95").
PyTimes(budget, pct) ==
    LET h == budget * pct
        q == h \div 100
        r == h % 100
    IN IF <<budget, pct>> \in DOMAIN InexactProducts
       THEN InexactProducts[<<budget, pct>>]
       ELSE ToString(q) \o "."
            \o (IF r % 10 = 0 THEN ToString(r \div 10)
                ELSE (IF r < 10 THEN "0" ELSE "") \o ToString(r))

\* The emergency fund without its cap.
EmergencyFund_uncapped(budget) == PyTimes(budget, 10)

\* str(min(500, budget*0.1)): the int 500 unless the product is smaller
EmergencyFund(budget) == IF budget * 10 < 500 * 100 THEN PyTimes(budget, 10) ELSE "500"

-----------------------------------------------------------------------------
(* LifeOpsCrew._create_fallback_result and _create_fallback_response *)

FallbackResult(ctx) ==
    LET stress == Get(ctx, "stress_level", 5)
        budget == Get(ctx, "monthly_budget", 2000)
        exam_days == Get(ctx, "days_until_exam", 30)
        problem == Get(ctx, "problem", "General life optimization")
    IN "\n" \o "        LIFE OPS COORDINATION PLAN\n" \o "        \n"
       \o "        Based on your inputs:\n" \o "        * Stress Level: " \o ToString(stress)
       \o "/10\n" \o "        * Monthly Budget: $" \o ToString(budget) \o "\n"
       \o "        * Exam in: " \o ToString(exam_days) \o " days\n" \o "        * Challenge: "
       \o problem \o "\n" \o "        \n" \o "        CROSS-DOMAIN INSIGHTS:\n"
       \o "        1. Health > Study: Because stress is " \o ToString(stress)
       \o "/10, reduce study hours by 20% to prevent burnout.\n"
       \o "        2. Finance > Health: Allocate $" \o PyTimes(budget, 10)
       \o " monthly for health activities like gym or meditation apps.\n"
       \o "        3. Study > Finance: Invest in study resources worth $" \o PyTimes(budget, 5)
       \o " to improve learning efficiency.\n" \o "        \n"
       \o "        RECOMMENDED WEEKLY SCHEDULE:\n" \o "        * Morning: Study/Work (2-3 hours)\n"
       \o "        * Afternoon: Health activity (1 hour)\n"
       \o "        * Evening: Leisure/Budget review (1 hour)\n"
       \o "        * Night: 7-8 hours sleep\n" \o "        \n" \o "        PRIORITY ACTIONS:\n"
       \o "        1. Immediate: Take a 10-minute break when stressed\n"
       \o "        2. This Week: Create a detailed budget plan\n"
       \o "        3. Ongoing: Follow a consistent sleep schedule\n" \o "        "

\* The health text with the high-stress wording from 7 on.
HealthAdvice_fromSeven(ctx) ==
    LET stress == Get(ctx, "stress_level", 5)
        sleep == Get(ctx, "sleep_hours", 7)
    IN "\n" \o "        HEALTH RECOMMENDATIONS:\n" \o "        * Current stress: "
       \o ToString(stress) \o "/10 - "
       \o (IF stress >= 7 THEN "High stress detected" ELSE "Moderate stress level") \o "\n"
       \o "        * Sleep target: Aim for " \o ToString(PyMax(7, sleep)) \o " hours nightly\n"
       \o "        * Daily activity: 30 minutes of moderate exercise\n"
       \o "        * Nutrition: Balanced meals with proper hydration\n"
       \o "        * Immediate action: Practice deep breathing when stressed\n" \o "        "

HealthAdvice(ctx) ==
    LET stress == Get(ctx, "stress_level", 5)
        sleep == Get(ctx, "sleep_hours", 7)
    IN "\n" \o "        HEALTH RECOMMENDATIONS:\n" \o "        * Current stress: "
       \o ToString(stress) \o "/10 - "
       \o (IF stress > 7 THEN "High stress detected" ELSE "Moderate stress level") \o "\n"
       \o "        * Sleep target: Aim for " \o ToString(PyMax(7, sleep)) \o " hours nightly\n"
       \o "        * Daily activity: 30 minutes of moderate exercise\n"
       \o "        * Nutrition: Balanced meals with proper hydration\n"
       \o "        * Immediate action: Practice deep breathing when stressed\n" \o "        "

\* The finance text with the savings target taken as a tenth of the budget.
FinanceAdvice_savingsTenth(ctx) ==
    LET budget == Get(ctx, "monthly_budget", 2000)
    IN "\n" \o "        FINANCE RECOMMENDATIONS:\n" \o "        * Monthly budget: $"
       \o ToString(budget) \o "\n" \o "        * Savings target: $" \o PyTimes(budget, 10)
       \o " (20% of income)\n" \o "        * Expense tracking: Use a budgeting app\n"
       \o "        * Emergency fund: Start with $" \o EmergencyFund(budget) \o "\n"
       \o "        * Health investment: Allocate $" \o PyTimes(budget, 5) \o " for wellness\n"
       \o "        "

FinanceAdvice(ctx) ==
    LET budget == Get(ctx, "monthly_budget", 2000)
    IN "\n" \o "        FINANCE RECOMMENDATIONS:\n" \o "        * Monthly budget: $"
       \o ToString(budget) \o "\n" \o "        * Savings target: $" \o PyTimes(budget, 20)
       \o " (20% of income)\n" \o "        * Expense tracking: Use a budgeting app\n"
       \o "        * Emergency fund: Start with $" \o EmergencyFund(budget) \o "\n"
       \o "        * Health investment: Allocate $" \o PyTimes(budget, 5) \o " for wellness\n"
       \o "        "

StudyAdvice(ctx) ==
    LET exam_days == Get(ctx, "days_until_exam", 30)
        study_hours == Get(ctx, "current_study_hours", 3)
    IN "\n" \o "        STUDY RECOMMENDATIONS:\n" \o "        * Exam in: " \o ToString(exam_days)
       \o " days\n" \o "        * Daily study: " \o ToString(study_hours)
       \o " hours using Pomodoro technique\n"
       \o "        * Focus areas: Break subjects into manageable chunks\n"
       \o "        * Breaks: 5-10 minute break every 45 minutes\n"
       \o "        * Review: Weekly revision of all topics\n" \o "        "

CoordinationAdvice(ctx) ==
    LET stress == Get(ctx, "stress_level", 5)
        budget == Get(ctx, "monthly_budget", 2000)
        exam_days == Get(ctx, "days_until_exam", 30)
        sleep == Get(ctx, "sleep_hours", 7)
        study_hours == Get(ctx, "current_study_hours", 3)
    IN "\n" \o "        INTEGRATED LIFE PLAN:\n" \o "        \n"
       \o "        CROSS-DOMAIN REASONING:\n" \o "        * Because your stress is "
       \o ToString(stress) \o "/10, study hours are optimized at " \o ToString(study_hours)
       \o " hours/day\n" \o "        * With $" \o ToString(budget) \o " budget, $"
       \o PyTimes(budget, 10) \o " is allocated for health and study resources\n"
       \o "        * Given " \o ToString(exam_days) \o " days until exam, sleep is prioritized at "
       \o ToString(PyMax(7, sleep)) \o " hours/night\n" \o "        \n"
       \o "        WEEKLY SCHEDULE:\n" \o "        Monday-Friday:\n"
       \o "          - 7:00 AM: Wake up & light exercise\n"
       \o "          - 9:00 AM: Study session 1\n" \o "          - 12:00 PM: Lunch & break\n"
       \o "          - 2:00 PM: Study session 2\n" \o "          - 5:00 PM: Health activity\n"
       \o "          - 7:00 PM: Dinner & leisure\n" \o "          - 10:00 PM: Wind down & sleep\n"
       \o "        \n" \o "        Saturday: Review & planning day\n"
       \o "        Sunday: Rest & preparation\n" \o "        "

FallbackInsight(ctx) ==
    LET stress == Get(ctx, "stress_level", 5)
        exam_days == Get(ctx, "days_until_exam", 30)
    IN "Because stress is " \o ToString(stress) \o "/10 and exam is in " \o ToString(exam_days)
       \o " days, we balanced study intensity with health activities and budget allocation."

FallbackResponse_noStudy(ctx) ==
    [health |-> HealthAdvice(ctx),
     finance |-> FinanceAdvice(ctx),
     study |-> "",
     coordination |-> CoordinationAdvice(ctx),
     cross_domain_insights |-> FallbackInsight(ctx),
     user_context |-> ctx,
     execution_time |-> 0]

FallbackResponse_elapsed(ctx) ==
    [health |-> HealthAdvice(ctx),
     finance |-> FinanceAdvice(ctx),
     study |-> StudyAdvice(ctx),
     coordination |-> CoordinationAdvice(ctx),
     cross_domain_insights |-> FallbackInsight(ctx),
     user_context |-> ctx,
     execution_time |-> Len(trace)]

\* The fallback response carrying a copy of the context with the defaults filled in.
FallbackResponse_defaultsFilled(ctx) ==
    [health |-> HealthAdvice(ctx),
     finance |-> FinanceAdvice(ctx),
     study |-> StudyAdvice(ctx),
     coordination |-> CoordinationAdvice(ctx),
     cross_domain_insights |-> FallbackInsight(ctx),
     user_context |-> [stress_level |-> Get(ctx, "stress_level", 5),
                       days_until_exam |-> Get(ctx, "days_until_exam", 30)],
     execution_time |-> 0]

FallbackResponse(ctx) ==
    [health |-> HealthAdvice(ctx),
     finance |-> FinanceAdvice(ctx),
     study |-> StudyAdvice(ctx),
     coordination |-> CoordinationAdvice(ctx),
     cross_domain_insights |-> FallbackInsight(ctx),
     user_context |-> ctx,
     execution_time |-> 0]

-----------------------------------------------------------------------------
(* Inputs of the direct calls *)

ValidKey == "AIza-valid-key"
PlaceholderKey == "your_google_api_key_here"
OpenAIKeys == {"OPENAI_API_KEY", "OPENAI_MODEL_NAME"}

NoReport == [kind |-> "none"]
NoCall == [fn |-> "none"]
\* A backend that is never called: the direct calls do not run the crew.
NoBackend == [health |-> "ok", finance |-> "ok", study |-> "ok", coordination |-> "ok",
              text |-> ""]

\* Every restriction of a full context to a subset of its keys: any field may be missing.
Restrictions(full) == {[k \in D |-> full[k]] : D \in SUBSET (DOMAIN full)}

\* The three fields the extractor reads, on both sides of each threshold.
ExtractContexts ==
    UNION {Restrictions([stress_level |-> s, monthly_budget |-> b, days_until_exam |-> e]) :
             s \in {7, 9}, b \in {1000, 1500}, e \in {3, 7}}

LineA == "Line A."
LineBecause == "Because stress is high, reduce study hours."
LineBudgetHealth == "Line C mentions budget and health together."
LineD == "Line D is neutral."

\* The coordination text of the keyword-extraction example.
ExampleText == StrJoin("\n", <<LineA, LineBecause, LineBudgetHealth, LineD>>)

\* Lines the multi-line texts are built from.
CoreLines == {LineA, LineBecause, LineBudgetHealth}

LineHowever == "  HOWEVER, rest well.  "

\* Lines tried alone: every keyword, every pair of the co-occurrence rules, near misses.
SingleLines ==
    {"Sleep more; therefore you learn faster.", "Since Monday", "Thus it works", "Enthusiasm helps",
     "Consequently rest", "Although tired", "Walk While you revise", "Whereas before", "Despite it all",
     "Stress hurts Finance", "Budget covers study books", "Health supports Finance",
     "HEALTH and STUDY", "stress alone", "budget and finance", "study and finance",
     "Health is wealth", " ", LineD, LineHowever}

RECURSIVE SeqsUpTo(_, _)
SeqsUpTo(S, n) ==
    IF n = 0 THEN {<<>>}
    ELSE LET shorter == SeqsUpTo(S, n - 1)
         IN shorter \cup {Append(q, x) : q \in {r \in shorter : Len(r) = n - 1}, x \in S}

\* The coordination texts handed to the extractor; the text of no line is "".
CoordinationTexts ==
    {StrJoin("\n", q) : q \in SeqsUpTo(CoreLines, MaxLines)}
    \cup SingleLines
    \cup {ExampleText, LineA \o "\n" \o LineD, "\n", LineBecause \o "\n",
          StrJoin("\n", <<LineHowever, LineD, "\tHealth supports Finance", LineBecause, LineBudgetHealth>>)}

InitExtract ==
    /\ api_key = ValidKey
    /\ environ = OpenAIKeys
    /\ user_context \in ExtractContexts
    /\ backend = NoBackend
    /\ pc = "idle"
    /\ trace = <<>>
    /\ report = NoReport
    /\ \E t \in CoordinationTexts :
           call = [fn |-> "pending", coordination_output |-> t]
    /\ earlier = NoReport

\* crew._extract_cross_domain_insights(coordination_output), called on its own
ExtractInsightsCall ==
    /\ call.fn = "pending"
    /\ LET t == call.coordination_output
       IN call' = [fn |-> "_extract_cross_domain_insights",
                   coordination_output |-> t,
                   cross_domain_lines |-> IF t = "" THEN <<>> ELSE CrossDomainLines(t),
                   result |-> ExtractCrossDomainInsights(user_context, t)]
    /\ UNCHANGED <<api_key, environ, user_context, backend, pc, trace, report, earlier>>

NextExtract == ExtractInsightsCall

SpecExtract == InitExtract /\ [][NextExtract]_vars

Extracted == call.fn = "_extract_cross_domain_insights"

-----------------------------------------------------------------------------
(* C8 *)

\* Case-insensitive containment, stated on the line itself: somewhere in the line the
\* letters of the word follow one another, in either case.
MentionsCI(line, word) ==
    \E i \in 1..(Len(line) - Len(word) + 1) :
        \A j \in 1..Len(word) : LowerChar(CharAt(line, i + j - 1)) = CharAt(word, j)

ConnectiveKeywords ==
    {"because", "therefore", "since", "thus", "consequently",
     "however", "although", "while", "whereas", "despite"}

RuleSelects(line) ==
    \/ \E w \in ConnectiveKeywords : MentionsCI(line, w)
    \/ MentionsCI(line, "stress") /\ (MentionsCI(line, "study") \/ MentionsCI(line, "finance"))
    \/ MentionsCI(line, "budget") /\ (MentionsCI(line, "health") \/ MentionsCI(line, "study"))
    \/ MentionsCI(line, "health") /\ (MentionsCI(line, "study") \/ MentionsCI(line, "finance"))

LinesOf(text) == StrSplit(text, "\n")

\* The lines of text a rule selects, stripped, in their order.
RuleSelected(text) ==
    LET ls == LinesOf(text)
        F[i \in 0..Len(ls)] ==
            IF i = 0 THEN <<>>
            ELSE IF RuleSelects(ls[i]) THEN Append(F[i - 1], StrStrip(ls[i])) ELSE F[i - 1]
    IN F[Len(ls)]

\* C8: the extractor selects a line of a non-empty coordination text if and only if
\* the line contains, case-insensitively, one of the ten connective keywords, or
\* stress with study or finance, or budget with health or study, or health with study
\* or finance; every other line is omitted.  Of the four-line example exactly lines
\* 2 and 3 are selected.
C8_SelectionIffRule ==
    (Extracted /\ call.coordination_output # "") =>
        /\ call.cross_domain_lines = RuleSelected(call.coordination_output)
        /\ call.coordination_output = ExampleText =>
               call.cross_domain_lines = <<LineBecause, LineBudgetHealth>>

C8_Witness ==
    /\ Extracted
    /\ call.coordination_output = ExampleText
    /\ call.cross_domain_lines = <<LineBecause, LineBudgetHealth>>

-----------------------------------------------------------------------------
(* C9 *)

\* The places of s where the separator " * " starts.
SeparatorPlaces(s) == {i \in 1..(Len(s) - 2) : SubSeq(s, i, i + 2) = Separator}

StartsWith(s, prefix) == Len(s) >= Len(prefix) /\ SubSeq(s, 1, Len(prefix)) = prefix

\* The first 3 lines a rule selects (all of them when there are fewer).
FirstThreeSelected(text) ==
    LET sel == RuleSelected(text)
    IN [i \in 1..(IF Len(sel) < 3 THEN Len(sel) ELSE 3) |-> sel[i]]

\* C9 as stated: when at least one line is selected the result is the first 3 selected
\* lines, in line order, with the separator only between consecutive entries: k entries,
\* k-1 separators, and the result starts with the first selected line.
C9_SeparatorOnlyBetween ==
    (Extracted /\ call.cross_domain_lines # <<>>) =>
        LET entries == FirstThreeSelected(call.coordination_output)
        IN /\ StrSplit(call.result, Separator) = entries
           /\ Cardinality(SeparatorPlaces(call.result)) = Len(entries) - 1
           /\ StartsWith(call.result, entries[1])

\* C9 amended: when at least one line is selected the result is the separator followed
\* by the first 3 selected lines, in line order, joined with the separator: every entry,
\* the first included, is preceded by the separator, so k entries come with k separators.
C9_SeparatorBeforeEach ==
    (Extracted /\ call.cross_domain_lines # <<>>) =>
        LET entries == FirstThreeSelected(call.coordination_output)
        IN /\ StrSplit(call.result, Separator) = <<"">> \o entries
           /\ Cardinality(SeparatorPlaces(call.result)) = Len(entries)
           /\ StartsWith(call.result, Separator \o entries[1])

\* Four lines are selected and three are returned.
C9_Witness ==
    /\ Extracted
    /\ Len(call.cross_domain_lines) = 4
    /\ Cardinality(SeparatorPlaces(call.result)) = 3
    /\ call.result = Separator \o LineBecause \o Separator \o LineBudgetHealth
                     \o Separator \o LineBecause

-----------------------------------------------------------------------------
(* C10 *)

\* A missing field counts with the default the code reads it with.
StressOf(ctx) == IF "stress_level" \in DOMAIN ctx THEN ctx.stress_level ELSE 5
BudgetOf(ctx) == IF "monthly_budget" \in DOMAIN ctx THEN ctx.monthly_budget ELSE 2000
ExamDaysOf(ctx) == IF "days_until_exam" \in DOMAIN ctx THEN ctx.days_until_exam ELSE 30

\* The template the precedence stress > budget > exam > generic picks.
PrecedenceTemplate(ctx) ==
    CASE StressOf(ctx) > 7 -> StressInsight(StressOf(ctx))
      [] StressOf(ctx) <= 7 /\ BudgetOf(ctx) < 1500 -> BudgetInsight(BudgetOf(ctx))
      [] StressOf(ctx) <= 7 /\ BudgetOf(ctx) >= 1500 /\ ExamDaysOf(ctx) < 7 ->
             ExamInsight(ExamDaysOf(ctx))
      [] OTHER -> GenericInsight

PrecedenceExample == [stress_level |-> 9, monthly_budget |-> 1000, days_until_exam |-> 3]

PrecedenceHolds ==
    /\ call.result = PrecedenceTemplate(user_context)
    /\ user_context = PrecedenceExample =>
           /\ StrContains(call.result, "stress is high (9/10)")
           /\ ~StrContains(call.result, "limited budget")
           /\ ~StrContains(call.result, "your exam is in")

-----------------------------------------------------------------------------
(* One session: LifeOpsCrew(user_context) is constructed and kickoff() is run *)

KeyUnset == "<None>"     \* os.getenv returned None

\* The context of the end-to-end scenario, and a calm one.
ScenarioContext ==
    [stress_level |-> 8, sleep_hours |-> 5, monthly_budget |-> 1200,
     days_until_exam |-> 4, current_study_hours |-> 4,
     problem |-> "Exam stress and a tight budget"]

CalmContext ==
    [stress_level |-> 3, sleep_hours |-> 8, monthly_budget |-> 2500,
     days_until_exam |-> 30, current_study_hours |-> 2,
     problem |-> "Keep the balance"]

\* Every stress level of the scale.
StressContexts == {[ScenarioContext EXCEPT !.stress_level = s] : s \in 1..10}

\* Budgets on both sides of 1500 and of 5000, the smallest ones, ones whose products are
\* inexact doubles (3, 7, 1203, 4999) and the largest validate_user_inputs keeps.
Budgets == {0, 1, 3, 7, 50, 1000, 1203, 1499, 1500, 2000, 4999, 5000, 5001, 10000, 1000000}

BudgetContexts ==
    {[ScenarioContext EXCEPT !.monthly_budget = b, !.stress_level = s] :
        b \in Budgets, s \in {5, 8}}

\* Study hours from none to the whole day, with and without high stress.
StudyContexts ==
    {[ScenarioContext EXCEPT !.current_study_hours = h, !.stress_level = s] :
        h \in {0, 1, 10, 24}, s \in {7, 8, 10}}

\* Contexts a caller of LifeOpsCrew may pass that the form's widgets would not produce.
OutOfRangeContexts ==
    {[ScenarioContext EXCEPT !.stress_level = 15],
     [ScenarioContext EXCEPT !.stress_level = 0],
     [ScenarioContext EXCEPT !.sleep_hours = 30],
     [ScenarioContext EXCEPT !.current_study_hours = 25],
     [stress_level |-> 15]}

RunContexts ==
    Restrictions(ScenarioContext) \cup {CalmContext} \cup StressContexts
    \cup BudgetContexts \cup StudyContexts \cup OutOfRangeContexts

TaskOrder == <<"health", "finance", "study", "coordination">>

\* The text the backend generates for a task when it succeeds.
Generated(b, task) ==
    CASE task = "health" -> "Generated health analysis."
      [] task = "finance" -> "Generated finance analysis."
      [] task = "study" -> "Generated study analysis."
      [] task = "coordination" -> b.text

AllOk(text) ==
    [health |-> "ok", finance |-> "ok", study |-> "ok", coordination |-> "ok", text |-> text]

\* What the backend does at each task: it succeeds everywhere, or it raises at one task,
\* or it returns empty text at one task.
Backends ==
    {AllOk(ExampleText), AllOk(LineA)}
    \cup {[AllOk(ExampleText) EXCEPT ![TaskOrder[i]] = o] : i \in 1..4, o \in {"raise", "empty"}}

BackendFails(b) == \E i \in 1..4 : b[TaskOrder[i]] = "raise"
BackendSucceeds(b) == \A i \in 1..4 : b[TaskOrder[i]] = "ok"

\* Seconds measured by time.time() - start_time around crew.kickoff()
Durations == {2, 7}

\* The key check that lets the placeholder through.
KeyRefused_placeholderAccepted(key) == key = KeyUnset \/ key = ""

\* LifeOpsAgents.__init__: the key is refused when missing, empty or the placeholder
KeyRefused(key) == key = KeyUnset \/ key = "" \/ key = PlaceholderKey

\* The keyword arguments of the call at crew_setup.py:34-36
CoordinationCallKeywords == {"context_tasks"}
\* The parameters of create_life_coordination_task (tasks.py:133), none with a default
CoordinationTaskParams == {"health_output", "finance_output", "study_output"}

CoordinationCallBinds_any == TRUE

\* Python binds a call when every keyword names a parameter and every parameter
\* without a default gets a value; otherwise the call raises TypeError before the
\* body of the function runs.
CoordinationCallBinds ==
    /\ CoordinationCallKeywords \subseteq CoordinationTaskParams
    /\ CoordinationTaskParams \subseteq CoordinationCallKeywords

RECURSIVE RunTasks(_, _, _, _)
RunTasks(b, i, outputs, calls) ==
    IF i > Len(TaskOrder) THEN [raised |-> FALSE, outputs |-> outputs, calls |-> calls]
    ELSE LET task == TaskOrder[i]
         IN IF b[task] = "raise"
            THEN [raised |-> TRUE, outputs |-> outputs, calls |-> Append(calls, "run_" \o task)]
            ELSE RunTasks(b, i + 1,
                          [outputs EXCEPT ![task] = IF b[task] = "ok" THEN Generated(b, task) ELSE ""],
                          Append(calls, "run_" \o task))

\* crew.kickoff() of Crew(tasks=[health, finance, study, coordination],
\* process=Process.sequential): the tasks run in list order, each output is stored on
\* its task, an exception of the backend ends the run.  "" is an output of None.
CrewKickoff(b) ==
    RunTasks(b, 1, [t \in {TaskOrder[i] : i \in 1..4} |-> ""], <<"crew.kickoff">>)

\* LifeOpsCrew._get_task_output
GetTaskOutput(task, default_output) ==
    IF "output" \in DOMAIN task /\ task.output # "" THEN task.output
    ELSE IF "result" \in DOMAIN task /\ task.result # "" THEN task.result
    ELSE default_output

\* Steps 4 and 5 of kickoff: the crew is run, a failure of it is replaced by
\* _create_fallback_result(), and the results are collected.
RunAndExtract(ctx, b, execution_time) ==
    LET run == CrewKickoff(b)
        final_result == IF run.raised THEN FallbackResult(ctx) ELSE run.outputs["coordination"]
    IN [calls |-> run.calls
                  \o (IF run.raised THEN <<"crew_error", "_create_fallback_result">> ELSE <<>>)
                  \o <<"extract">>,
        results |->
          [health |-> GetTaskOutput([output |-> run.outputs["health"]],
                                    "Health analysis completed successfully."),
           finance |-> GetTaskOutput([output |-> run.outputs["finance"]],
                                     "Finance analysis completed successfully."),
           study |-> GetTaskOutput([output |-> run.outputs["study"]],
                                   "Study analysis completed successfully."),
           coordination |-> IF final_result # "" THEN final_result
                            ELSE "Life coordination plan created.",
           cross_domain_insights |-> ExtractCrossDomainInsights(ctx, final_result),
           user_context |-> ctx,
           execution_time |-> execution_time]]

Init ==
    /\ api_key \in {ValidKey, KeyUnset, "", PlaceholderKey}
    /\ environ = {}
    /\ user_context \in RunContexts
    /\ backend \in IF KeyRefused(api_key) THEN {AllOk(ExampleText)} ELSE Backends
    /\ pc = "new"
    /\ trace = <<>>
    /\ report = NoReport
    /\ call = NoCall
    /\ earlier = NoReport

\* LifeOpsCrew.__init__: LifeOpsTasks(user_context) and LifeOpsAgents() each run
\* LifeOpsAgents.__init__, which writes the two OpenAI keys of os.environ and then
\* raises ValueError when the Google key is refused.
Construct ==
    /\ pc = "new"
    /\ environ' = environ \cup OpenAIKeys
    /\ IF KeyRefused(api_key)
       THEN /\ pc' = "config_error"
            /\ trace' = Append(trace, "ValueError")
       ELSE /\ pc' = "idle"
            /\ trace' = Append(trace, "constructed")
    /\ UNCHANGED <<api_key, user_context, backend, report, call, earlier>>

\* kickoff() is called and enters its try block
Kickoff ==
    /\ pc = "idle"
    /\ pc' = "health"
    /\ trace' = Append(trace, "kickoff")
    /\ UNCHANGED <<api_key, environ, user_context, backend, report, call, earlier>>

NextTask(task) ==
    CASE task = "health" -> "finance"
      [] task = "finance" -> "study"
      [] task = "study" -> "coordination"

\* create_<domain>_analysis_task(): the agent and the Task are built by the library;
\* a constructor that raises is caught by the try block like any other exception.
CreateDomainTask ==
    /\ pc \in {"health", "finance", "study"}
    /\ \E built \in BOOLEAN :
          IF built
          THEN /\ pc' = NextTask(pc)
               /\ trace' = Append(trace, "create_" \o pc \o "_task")
          ELSE /\ pc' = "except"
               /\ trace' = Append(trace, "raise_in_create_" \o pc \o "_task")
    /\ UNCHANGED <<api_key, environ, user_context, backend, report, call, earlier>>

\* From the call of create_life_coordination_task to the return of the results.
CoordinateAndRun ==
    /\ pc = "coordination"
    /\ IF ~CoordinationCallBinds
       THEN /\ pc' = "except"
            /\ trace' = Append(trace, "TypeError_in_create_life_coordination_task")
            /\ UNCHANGED report
       ELSE \E execution_time \in Durations :
               LET r == RunAndExtract(user_context, backend, execution_time)
               IN /\ pc' = "done"
                  /\ trace' = trace \o <<"create_life_coordination_task", "Crew">> \o r.calls
                  /\ report' = r.results
    /\ UNCHANGED <<api_key, environ, user_context, backend, call, earlier>>

KickoffExcept_reraise ==
    /\ pc = "except"
    /\ pc' = "raised"
    /\ trace' = Append(trace, "except")
    /\ UNCHANGED <<api_key, environ, user_context, backend, report, call, earlier>>

KickoffExcept_retry ==
    /\ pc = "except"
    /\ \E execution_time \in Durations :
          LET r == RunAndExtract(user_context, backend, execution_time)
          IN /\ pc' = "done"
             /\ trace' = trace \o <<"except">> \o r.calls
             /\ report' = r.results
    /\ UNCHANGED <<api_key, environ, user_context, backend, call, earlier>>

\* except Exception as e: return self._create_fallback_response()
KickoffExcept ==
    /\ pc = "except"
    /\ pc' = "done"
    /\ trace' = trace \o <<"except", "_create_fallback_response">>
    /\ report' = FallbackResponse(user_context)
    /\ UNCHANGED <<api_key, environ, user_context, backend, call, earlier>>

\* The session runs the analysis once more: a new LifeOpsCrew is built from the same
\* user context and the backend behaves in any of its ways again.
RunAgain ==
    /\ pc = "done"
    /\ earlier = NoReport
    /\ earlier' = [kind |-> "report", results |-> report, forced_failure |-> BackendFails(backend)]
    /\ backend' \in Backends
    /\ pc' = "new"
    /\ trace' = <<>>
    /\ report' = NoReport
    /\ UNCHANGED <<api_key, environ, user_context, call>>

Next ==
    \/ Construct
    \/ Kickoff
    \/ CreateDomainTask
    \/ CoordinateAndRun
    \/ KickoffExcept
    \/ RunAgain

Spec == Init /\ [][Next]_vars

\* The interpreter keeps executing the run until kickoff has returned.
FairSpec == Spec /\ WF_vars(Next)

Done == pc = "done"


TextFields == {"health", "finance", "study", "coordination"}

Events == {trace[i] : i \in 1..Len(trace)}

FailureEvents ==
    {"raise_in_create_health_task", "raise_in_create_finance_task",
     "raise_in_create_study_task", "TypeError_in_create_life_coordination_task",
     "crew_error"}

BackendCalls == {"crew.kickoff", "run_health", "run_finance", "run_study", "run_coordination"}

-----------------------------------------------------------------------------
(* C1 *)

NonEmptyString(x) == Len(x) > 0

FullReport(r) ==
    /\ \A f \in TextFields : NonEmptyString(r[f])
    /\ NonEmptyString(r.cross_domain_insights)

\* C1: for every user context, the one with every field missing included, and whatever
\* the backend does, kickoff terminates, and the report it returns has non-empty
\* health, finance, study, coordination and cross-domain insight texts.
C1_KickoffTotal ==
    /\ [](Done => FullReport(report))
    /\ (pc = "idle") ~> Done

C1_Witness ==
    /\ Done
    /\ DOMAIN user_context = {}
    /\ backend.study = "raise"
    /\ FullReport(report)

-----------------------------------------------------------------------------
(* C2 *)

IsGenerated(f) == report[f] = Generated(backend, f)

FallbackTexts(ctx) ==
    [health |-> HealthAdvice(ctx), finance |-> FinanceAdvice(ctx),
     study |-> StudyAdvice(ctx), coordination |-> CoordinationAdvice(ctx)]

-----------------------------------------------------------------------------
(* C3 *)

NoConstructorRaised ==
    Events \cap {"raise_in_create_health_task", "raise_in_create_finance_task",
                 "raise_in_create_study_task"} = {}

\* The events of the trace that are backend calls, in their order.
CallsIn(tr) == SelectSeq(tr, LAMBDA e : e \in BackendCalls)

\* C3: in a run with a valid credential in which the backend succeeds at all four
\* tasks (and no task constructor raised), kickoff builds the three domain tasks and
\* the coordination task, runs health, finance, study and coordination in this order,
\* extracts, and returns the generated texts in the four text fields.
C3_GenerationPath ==
    (Done /\ ~KeyRefused(api_key) /\ BackendSucceeds(backend) /\ NoConstructorRaised) =>
        /\ CallsIn(trace) = <<"crew.kickoff", "run_health", "run_finance", "run_study",
                              "run_coordination">>
        /\ "extract" \in Events
        /\ \A f \in TextFields : IsGenerated(f)

\* The run the code makes of it: the coordination call raises and the report is the
\* fallback response.
C3_Witness ==
    /\ Done /\ ~KeyRefused(api_key) /\ BackendSucceeds(backend) /\ NoConstructorRaised
    /\ CallsIn(trace) = <<>>
    /\ report = FallbackResponse(user_context)

-----------------------------------------------------------------------------
(* C5 *)

TaskSteps == {"health", "finance", "study", "coordination"}

Failed(tr) == tr # <<>> /\ tr[Len(tr)] \in FailureEvents

\* C5: a failure in the health, finance, study or coordination step leads to the
\* handler, the handler to the fallback response, and that to Done: every run that
\* entered kickoff reaches Done, none stops in the handler and none passes the
\* failure on to the caller.
C5_ErrorFallbackDone ==
    /\ [][(pc \in TaskSteps /\ Failed(trace')) => pc' = "except"]_vars
    /\ [][pc = "except" => (pc' = "done" /\ report' = FallbackResponse(user_context))]_vars
    /\ \A step \in TaskSteps : (pc = step) ~> Done
    /\ (pc = "except") ~> Done
    /\ [](pc # "raised")

C5_Witness ==
    /\ Done
    /\ Len(trace) >= 3
    /\ trace[Len(trace) - 2] = "TypeError_in_create_life_coordination_task"
    /\ trace[Len(trace) - 1] = "except"
    /\ trace[Len(trace)] = "_create_fallback_response"
    /\ report = FallbackResponse(user_context)

-----------------------------------------------------------------------------
(* C6 *)

\* C6: two runs with the same user context, in both of which the backend is made to
\* fail, return reports that are equal in every field, execution_time included.
C6_FallbackDeterministic ==
    (Done /\ earlier.kind = "report" /\ earlier.forced_failure /\ BackendFails(backend))
        => report = earlier.results

C6_Witness ==
    /\ Done /\ earlier.kind = "report" /\ earlier.forced_failure /\ BackendFails(backend)
    /\ "raise_in_create_health_task" \in Events
    /\ report.execution_time = 0
    /\ earlier.results.execution_time = 0
    /\ report = earlier.results

-----------------------------------------------------------------------------
(* C7 *)

\* C7: a failure is never retried: in one run the backend pipeline is started at most
\* once, and after a failure no backend call is made before the report is returned.
C7_NoRetry ==
    /\ Cardinality({i \in 1..Len(trace) : trace[i] = "crew.kickoff"}) <= 1
    /\ \A i, j \in 1..Len(trace) :
           (i < j /\ trace[i] \in FailureEvents) => trace[j] \notin BackendCalls

C7_Witness ==
    /\ Done
    /\ backend.health = "raise"
    /\ Events \cap FailureEvents # {}
    /\ Events \cap BackendCalls = {}
    /\ report = FallbackResponse(user_context)

-----------------------------------------------------------------------------
(* C11 *)

EmptyText == call.coordination_output = ""

-----------------------------------------------------------------------------
(* C12 *)

\* The run is over and the backend of the run was one that raises.
ForcedFailureDone == Done /\ BackendFails(backend)

\* C12: when the backend is forced to fail, the report's cross-domain insight is the
\* template the extractor's precedence picks for the context; with stress_level > 7 it
\* is the extractor's stress sentence carrying "<stress>/10".
C12_FailureInsightIsTemplate ==
    ForcedFailureDone =>
        /\ report.cross_domain_insights = PrecedenceTemplate(user_context)
        /\ StressOf(user_context) > 7 =>
               report.cross_domain_insights = StressInsight(StressOf(user_context))

\* The scenario run: stress 8, exam in 4 days, the backend raising at the health task.
C12_Witness ==
    /\ ForcedFailureDone
    /\ user_context = ScenarioContext
    /\ report.cross_domain_insights
         = "Because stress is 8/10 and exam is in 4 days, we balanced study intensity "
           \o "with health activities and budget allocation."
    /\ report.cross_domain_insights # StressInsight(8)
    /\ StrContains(report.cross_domain_insights, "8/10")

-----------------------------------------------------------------------------
(* Reading the amounts stated in a text *)

DigitChars == "0123456789"
DigitSet == {CharAt(DigitChars, i) : i \in 1..10}
DigitValue(c) == (CHOOSE i \in 1..10 : CharAt(DigitChars, i) = c) - 1

\* The first position at which k occurs in s, 0 when it does not occur.
IndexOf(s, k) ==
    LET places == {i \in 1..(Len(s) - Len(k) + 1) : SubSeq(s, i, i + Len(k) - 1) = k}
    IN IF places = {} THEN 0 ELSE MinOf(places)

\* The longest run of digits and points that starts at position i of s.
NumberAt(s, i) ==
    LET stops == {j \in i..Len(s) : CharAt(s, j) \notin DigitSet \cup {"."}}
        last == IF stops = {} THEN Len(s) ELSE MinOf(stops) - 1
    IN SubSeq(s, i, last)

\* The number written right after the first occurrence of marker in text ("" if none).
AmountAfter(text, marker) ==
    LET at == IndexOf(text, marker)
    IN IF at = 0 THEN "" ELSE NumberAt(text, at + Len(marker))

RECURSIVE DigitsValue(_)
DigitsValue(d) ==
    IF d = "" THEN 0
    ELSE 10 * DigitsValue(SubSeq(d, 1, Len(d) - 1)) + DigitValue(CharAt(d, Len(d)))

\* The amount written as "123", "123.4" or "123.4500000001", in cents, rounded to the
\* nearest cent.
Cents(amount) ==
    LET point == IndexOf(amount, ".")
        whole == IF point = 0 THEN amount ELSE SubSeq(amount, 1, point - 1)
        frac == IF point = 0 THEN "" ELSE SubSeq(amount, point + 1, Len(amount))
        digit(k) == IF Len(frac) >= k THEN DigitValue(CharAt(frac, k)) ELSE 0
    IN DigitsValue(whole) * 100 + digit(1) * 10 + digit(2) + (IF digit(3) >= 5 THEN 1 ELSE 0)

\* A decimal number: digits, at most one point, a digit on each side of it.
IsAmount(amount) ==
    /\ amount # ""
    /\ \A i \in 1..Len(amount) : CharAt(amount, i) \in DigitSet \cup {"."}
    /\ Cardinality({i \in 1..Len(amount) : CharAt(amount, i) = "."}) <= 1
    /\ CharAt(amount, 1) # "."
    /\ CharAt(amount, Len(amount)) # "."

-----------------------------------------------------------------------------
(* C13 *)

SavingsTarget == AmountAfter(report.finance, "Savings target: $")

\* C13: under forced generation failure the finance text states a savings target that
\* is 20% of monthly_budget, for every budget >= 0 (a missing budget counts as 2000);
\* for a budget of 1200 it states 240.  The amount is a Python float printed as it is,
\* so it is compared to the cent: five times the stated amount is the budget.
C13_SavingsTwentyPercent ==
    (ForcedFailureDone /\ BudgetOf(user_context) >= 0) =>
        /\ IsAmount(SavingsTarget)
        /\ 5 * Cents(SavingsTarget) = 100 * BudgetOf(user_context)
        /\ BudgetOf(user_context) = 1200 => SavingsTarget = "240.0"

\* A budget whose fifth is not a double: the text shows the rounding of the product.
C13_Witness ==
    /\ ForcedFailureDone
    /\ BudgetOf(user_context) = 1203
    /\ SavingsTarget = "240.60000000000002"
    /\ Cents(SavingsTarget) = 24060

-----------------------------------------------------------------------------
(* C14 *)

FinanceWellness == AmountAfter(report.finance, "Health investment: Allocate $")
CoordinationWellness == AmountAfter(report.coordination, " budget, $")

\* C14: in the fallback report the wellness allocation stated by the finance text and
\* the one stated by the coordination text are both 10% of monthly_budget, and so the
\* two texts of one report never state different amounts.
C14_WellnessTenPercent ==
    (ForcedFailureDone /\ BudgetOf(user_context) >= 0) =>
        /\ 10 * Cents(FinanceWellness) = 100 * BudgetOf(user_context)
        /\ 10 * Cents(CoordinationWellness) = 100 * BudgetOf(user_context)
        /\ FinanceWellness = CoordinationWellness

\* The scenario run, budget 1200: 60 for wellness in the finance text, 120 in the
\* coordination text.
C14_Witness ==
    /\ ForcedFailureDone
    /\ user_context = ScenarioContext
    /\ FinanceWellness = "60.0"
    /\ CoordinationWellness = "120.0"

-----------------------------------------------------------------------------
(* C15 *)

EmergencyFundStated == AmountAfter(report.finance, "Emergency fund: Start with $")

\* C15: under forced generation failure the emergency fund stated in the finance text is
\* min(500, 10% of monthly_budget) for every budget >= 0: it never exceeds 500 and never
\* exceeds a tenth of the budget.  Amounts are compared to the cent.
C15_EmergencyFundCapped ==
    (ForcedFailureDone /\ BudgetOf(user_context) >= 0) =>
        LET tenth == 10 * BudgetOf(user_context)
        IN /\ IsAmount(EmergencyFundStated)
           /\ Cents(EmergencyFundStated) = IF tenth < 50000 THEN tenth ELSE 50000
           /\ Cents(EmergencyFundStated) <= 50000
           /\ Cents(EmergencyFundStated) <= tenth

\* A budget whose tenth is above the cap.
C15_Witness ==
    /\ ForcedFailureDone
    /\ BudgetOf(user_context) = 10000
    /\ EmergencyFundStated = "500"
    /\ StrContains(report.finance, "Emergency fund: Start with $500\n")

-----------------------------------------------------------------------------
(* C16 *)

StudyHoursOf(ctx) ==
    IF "current_study_hours" \in DOMAIN ctx THEN ctx.current_study_hours ELSE 3

StudyHoursStated == AmountAfter(report.coordination, "study hours are optimized at ")

\* C16: under forced generation failure with stress_level > 7 the coordination text
\* references reduced study hours due to stress: it tells to reduce them, or the daily
\* study hours it recommends are lower than current_study_hours.
C16_ReducedStudyHours ==
    (ForcedFailureDone /\ StressOf(user_context) > 7) =>
        \/ StrContains(report.coordination, "reduce study hours")
        \/ /\ IsAmount(StudyHoursStated)
           /\ DigitsValue(StudyHoursStated) < StudyHoursOf(user_context)

\* The scenario run, stress 8 and 4 study hours: the text recommends the same 4 hours.
C16_Witness ==
    /\ ForcedFailureDone
    /\ user_context = ScenarioContext
    /\ StrContains(report.coordination,
                   "Because your stress is 8/10, study hours are optimized at 4 hours/day")
    /\ DigitsValue(StudyHoursStated) = StudyHoursOf(user_context)

-----------------------------------------------------------------------------
(* C17 *)

HighStressWording == StrContains(report.health, "High stress detected")
ModerateWording == StrContains(report.health, "Moderate stress level")

\* C17: under forced generation failure the health text contains the high-stress
\* acknowledgment if and only if stress_level > 7, and the moderate wording otherwise
\* (a missing stress level counts as 5).
C17_HighStressIffAboveSeven ==
    ForcedFailureDone =>
        /\ HighStressWording <=> StressOf(user_context) > 7
        /\ ModerateWording <=> StressOf(user_context) <= 7

\* The lowest stress level that is acknowledged as high.
C17_Witness ==
    /\ ForcedFailureDone
    /\ StressOf(user_context) = 8
    /\ StrContains(report.health, "Current stress: 8/10 - High stress detected\n")
    /\ ~ModerateWording

-----------------------------------------------------------------------------
(* utils.validate_user_inputs, called on its own *)

\* The values of an inputs dict: None, an int, a float (held in tenths), a str, or an
\* object of another type with the text str() gives for it.
NoneValue == [t |-> "None"]
IntValue(n) == [t |-> "int", v |-> n]
FloatValue(tenths) == [t |-> "float", v |-> tenths]
StrValue(s) == [t |-> "str", v |-> s]
ObjectValue(text) == [t |-> "object", v |-> text]

IsNumber(x) == x.t \in {"int", "float"}

\* The number in tenths, to compare an int with a float.
Tenths(x) == IF x.t = "int" THEN 10 * x.v ELSE x.v

\* min(a, b) and max(a, b) of Python: the first argument unless the second is strictly
\* smaller (greater); the result keeps the type of the argument returned.
NumMin(a, b) == IF Tenths(b) < Tenths(a) THEN b ELSE a
NumMax(a, b) == IF Tenths(b) > Tenths(a) THEN b ELSE a

\* The clamp of stress_level with its lower bound at 0.
ClampStress_fromZero(value) == NumMax(IntValue(0), NumMin(IntValue(10), value))

ClampStress(value) == NumMax(IntValue(1), NumMin(IntValue(10), value))
\* The clamp of the hours that takes one off a value above 24.
ClampHours_stepDown(value) ==
    IF Tenths(value) > 240 THEN [value EXCEPT !.v = @ - 1] ELSE NumMax(IntValue(0), value)

ClampHours(value) == NumMax(IntValue(0), NumMin(IntValue(24), value))
ClampMoney(value) == NumMax(IntValue(0), NumMin(IntValue(1000000), value))

\* One turn of the loop: the entry validated[key] made from inputs[key] = value.
ValidateValue(key, value) ==
    IF value.t = "None" THEN StrValue("")
    ELSE IF IsNumber(value)
         THEN IF key = "stress_level" THEN ClampStress(value)
              ELSE IF key \in {"sleep_hours", "current_study_hours"} THEN ClampHours(value)
              ELSE IF key \in {"monthly_budget", "current_expenses"} THEN ClampMoney(value)
              ELSE value
         ELSE StrValue(value.v)

ValidateUserInputs(inputs) == [key \in DOMAIN inputs |-> ValidateValue(key, inputs[key])]

\* An inputs dict as the form builds it.
FormInputs ==
    [stress_level |-> IntValue(5), sleep_hours |-> IntValue(7),
     current_study_hours |-> IntValue(3), monthly_budget |-> IntValue(2000),
     current_expenses |-> IntValue(1500), days_until_exam |-> IntValue(30),
     problem |-> StrValue("Exam stress")]

\* Values on both sides of every bound, of every type.
InputValues ==
    {IntValue(n) : n \in {-3, -1, 0, 1, 2, 5, 9, 10, 11, 15, 23, 24, 25, 30, 2000,
                          999999, 1000000, 1000001}}
    \cup {FloatValue(n) : n \in {-15, -1, 0, 5, 9, 10, 11, 75, 99, 100, 101, 239, 240, 241, 305}}
    \cup {NoneValue, StrValue(""), StrValue("15"), ObjectValue("[15, -3]")}

\* Dicts with one key at any value, alone or beside other keys of the form.
ValidatorInputs ==
    UNION {{[key \in D |-> IF key = k THEN v ELSE FormInputs[key]] :
               v \in InputValues,
               D \in {{k}, {k, "problem"}, {k, "stress_level", "monthly_budget"},
                      DOMAIN FormInputs}} :
           k \in DOMAIN FormInputs}
    \cup {<<>>}

InitValidate ==
    /\ api_key = ValidKey
    /\ environ = {}
    /\ user_context = <<>>
    /\ backend = NoBackend
    /\ pc = "idle"
    /\ trace = <<>>
    /\ report = NoReport
    /\ \E inputs \in ValidatorInputs : call = [fn |-> "pending", inputs |-> inputs]
    /\ earlier = NoReport

\* validate_user_inputs(inputs)
ValidateUserInputsCall ==
    /\ call.fn = "pending"
    /\ call' = [fn |-> "validate_user_inputs",
                inputs |-> call.inputs,
                validated |-> ValidateUserInputs(call.inputs)]
    /\ UNCHANGED <<api_key, environ, user_context, backend, pc, trace, report, earlier>>

NextValidate == ValidateUserInputsCall

SpecValidate == InitValidate /\ [][NextValidate]_vars

Validated == call.fn = "validate_user_inputs"

-----------------------------------------------------------------------------
(* C18 *)

HoursKeys == {"sleep_hours", "current_study_hours"}
MoneyKeys == {"monthly_budget", "current_expenses"}

\* max(1, min(10, v)) for an integer v
ClampedStress(v) == IF v < 1 THEN 1 ELSE IF v > 10 THEN 10 ELSE v

\* C18: validate_user_inputs clamps the numeric fields: an integer stress_level v comes
\* out as max(1, min(10, v)) (15 as 10, -3 as 1), a numeric sleep_hours or
\* current_study_hours as a value in [0, 24], a numeric monthly_budget or
\* current_expenses as a value >= 0; the result has the keys of the input, and a number
\* or a string under any other key is kept as it is.
C18_Clamping ==
    Validated =>
        LET inputs == call.inputs
            validated == call.validated
        IN /\ DOMAIN validated = DOMAIN inputs
           /\ \A key \in DOMAIN inputs :
                 LET value == inputs[key]
                     out == validated[key]
                 IN /\ (key = "stress_level" /\ value.t = "int")
                          => out = IntValue(ClampedStress(value.v))
                    /\ (key = "stress_level" /\ value = IntValue(15)) => out = IntValue(10)
                    /\ (key = "stress_level" /\ value = IntValue(-3)) => out = IntValue(1)
                    /\ (key \in HoursKeys /\ IsNumber(value))
                          => IsNumber(out) /\ 0 <= Tenths(out) /\ Tenths(out) <= 240
                    /\ (key \in MoneyKeys /\ IsNumber(value))
                          => IsNumber(out) /\ Tenths(out) >= 0
                    /\ (key \notin {"stress_level"} \cup HoursKeys \cup MoneyKeys
                        /\ value.t \in {"int", "float", "str"}) => out = value

\* The two examples side by side with the other fields of the form.
C18_Witness ==
    /\ Validated
    /\ DOMAIN call.inputs = DOMAIN FormInputs
    /\ call.inputs.stress_level = IntValue(15)
    /\ call.validated.stress_level = IntValue(10)
    /\ call.validated.problem = StrValue("Exam stress")

-----------------------------------------------------------------------------
(* C19 *)

StressRendered == AmountAfter(report.health, "Current stress: ")
SleepRendered == AmountAfter(report.health, "Sleep target: Aim for ")
StudyHoursRendered == AmountAfter(report.study, "Daily study: ")

\* C19: every numeric field of the context is clamped before it is used, also when the
\* LifeOpsCrew was built from an out-of-range context: the report renders a stress
\* level in 1..10 and hours in 0..24, and the context it carries is in range.
C19_ClampedBeforeUse ==
    Done =>
        /\ IsAmount(StressRendered) /\ DigitsValue(StressRendered) \in 1..10
        /\ IsAmount(SleepRendered) /\ DigitsValue(SleepRendered) \in 0..24
        /\ IsAmount(StudyHoursRendered) /\ DigitsValue(StudyHoursRendered) \in 0..24
        /\ "stress_level" \in DOMAIN report.user_context
              => report.user_context.stress_level \in 1..10

\* A crew built from a context with stress_level 15: the report says 15/10 and takes
\* the comparison stress > 7 with 15.
C19_Witness ==
    /\ Done
    /\ user_context = [stress_level |-> 15]
    /\ StrContains(report.health, "Current stress: 15/10 - High stress detected")
    /\ report.user_context.stress_level = 15

-----------------------------------------------------------------------------
(* C20 *)

\* The credential is absent, empty or the placeholder of the sample configuration.
CredentialMissing == api_key \in {KeyUnset, "", "your_google_api_key_here"}

\* C20: with the credential absent, empty or equal to the placeholder, the only thing
\* that ever happens is the configuration error raised by the constructor: no crew is
\* constructed, kickoff is not entered, no backend call is made, no report of any kind
\* is produced, and nothing follows the error.
C20_ConfigErrorBeforeRun ==
    CredentialMissing =>
        /\ \/ pc = "new" /\ trace = <<>>
           \/ pc = "config_error" /\ trace = <<"ValueError">>
        /\ report = NoReport
        /\ earlier = NoReport
        /\ Events \cap (BackendCalls \cup {"constructed", "kickoff", "_create_fallback_response"})
             = {}

C20_Witness ==
    /\ api_key = "your_google_api_key_here"
    /\ pc = "config_error"
    /\ trace = <<"ValueError">>
    /\ report = NoReport

-----------------------------------------------------------------------------
(* LifeOpsTasks: the task descriptions, each builder called on its own *)

\* The fields of a context that hold numbers; the others hold text.
NumericKeys ==
    {"stress_level", "sleep_hours", "days_until_exam", "current_study_hours",
     "monthly_budget", "current_expenses"}

\* {self.user_context.get(key, default)} inside an f-string: str() of the value, or the
\* default when the key is missing.
Field(ctx, key, default) ==
    IF key \in DOMAIN ctx
    THEN IF key \in NumericKeys THEN ToString(ctx[key]) ELSE ctx[key]
    ELSE default

HealthTaskDescription(ctx) ==
    "Analyze the user's health situation comprehensively:\n" \o "            \n"
    \o "            User Context:\n" \o "            - Stress Level: "
    \o Field(ctx, "stress_level", "Not specified") \o "/10\n"
    \o "            - Sleep Pattern: " \o Field(ctx, "sleep_hours", "Not specified")
    \o " hours\n" \o "            - Exercise Frequency: "
    \o Field(ctx, "exercise_frequency", "Not specified") \o "\n"
    \o "            - Diet Quality: " \o Field(ctx, "diet_quality", "Not specified") \o "\n"
    \o "            - Problem: " \o Field(ctx, "problem", "No specific problem mentioned")
    \o "\n" \o "            \n" \o "            Your Analysis Should Include:\n"
    \o "            1. Current health risk assessment\n"
    \o "            2. Immediate stress reduction strategies\n"
    \o "            3. Sleep optimization plan\n"
    \o "            4. Quick exercise/movement recommendations\n"
    \o "            5. Nutrition tips for stress management\n"
    \o "            6. Warning signs to watch for\n" \o "            \n"
    \o "            Consider cross-domain impacts:\n"
    \o "            - How health affects study productivity\n"
    \o "            - How health decisions impact finances\n"
    \o "            - Time allocation for health vs other activities\n" \o "            \n"
    \o "            Format your output with clear sections and actionable steps.\n"
    \o "            "

FinanceTaskDescription(ctx) ==
    "Analyze the user's financial situation and provide guidance:\n" \o "            \n"
    \o "            User Context:\n" \o "            - Monthly Budget: $"
    \o Field(ctx, "monthly_budget", "Not specified") \o "\n"
    \o "            - Current Expenses: $"
    \o Field(ctx, "current_expenses", "Not specified") \o "\n"
    \o "            - Financial Goals: " \o Field(ctx, "financial_goals", "Not specified")
    \o "\n" \o "            - Problem: "
    \o Field(ctx, "problem", "No specific problem mentioned") \o "\n" \o "            \n"
    \o "            Your Analysis Should Include:\n"
    \o "            1. Budget allocation analysis\n"
    \o "            2. Expense optimization opportunities\n"
    \o "            3. Savings strategy\n"
    \o "            4. Emergency fund recommendations\n"
    \o "            5. Cost-effective health/study investments\n" \o "            \n"
    \o "            Consider cross-domain impacts:\n"
    \o "            - How financial decisions affect health (stress, nutrition)\n"
    \o "            - Budget allocation for study materials/courses\n"
    \o "            - Financial stress impact on overall wellbeing\n" \o "            \n"
    \o "            Provide specific, actionable financial advice.\n" \o "            "

StudyTaskDescription(ctx) ==
    LET days_until_exam == Field(ctx, "days_until_exam", "0")
        exam_date == Field(ctx, "exam_date", "Not specified")
    IN "Analyze the user's study situation and create an optimal plan:\n"
       \o "            \n" \o "            User Context:\n"
       \o "            - Upcoming Exam: " \o exam_date \o " (" \o days_until_exam
       \o " days from now)\n" \o "            - Current Study Hours: "
       \o Field(ctx, "current_study_hours", "Not specified") \o "/day\n"
       \o "            - Subjects/Topics: " \o Field(ctx, "subjects", "Not specified")
       \o "\n" \o "            - Problem: "
       \o Field(ctx, "problem", "No specific problem mentioned") \o "\n" \o "            \n"
       \o "            Your Analysis Should Include:\n"
       \o "            1. Study schedule optimization\n"
       \o "            2. Effective learning techniques for retention\n"
       \o "            3. Burnout prevention strategies\n"
       \o "            4. Break scheduling recommendations\n"
       \o "            5. Resource allocation\n" \o "            \n"
       \o "            Consider cross-domain impacts:\n"
       \o "            - How study schedule affects sleep/health\n"
       \o "            - Financial investment in study resources\n"
       \o "            - Stress management during study periods\n" \o "            \n"
       \o "            Create a realistic, sustainable study plan.\n" \o "            "

TaskDescription(domain, ctx) ==
    CASE domain = "health" -> HealthTaskDescription(ctx)
      [] domain = "finance" -> FinanceTaskDescription(ctx)
      [] domain = "study" -> StudyTaskDescription(ctx)

\* A context with every field the form collects.
FormContext ==
    [stress_level |-> 8, sleep_hours |-> 5, exercise_frequency |-> "Rarely",
     exam_date |-> "2026-03-01", days_until_exam |-> 4, current_study_hours |-> 4,
     subjects |-> "Mathematics, Science", monthly_budget |-> 1200,
     current_expenses |-> 1100, financial_goals |-> "Save for emergency fund",
     problem |-> "Exam stress and a tight budget"]

\* Any subset of the fields may be missing.
BuildContexts == Restrictions(FormContext)

InitBuild ==
    /\ api_key = ValidKey
    /\ environ = OpenAIKeys
    /\ user_context \in BuildContexts
    /\ backend = NoBackend
    /\ pc = "idle"
    /\ trace = <<>>
    /\ report = NoReport
    /\ \E domain \in {"health", "finance", "study"} :
           call = [fn |-> "pending", domain |-> domain]
    /\ earlier = NoReport

\* tasks.create_<domain>_analysis_task(): the Task made, with its description
CreateTaskCall ==
    /\ call.fn = "pending"
    /\ call' = [fn |-> "create_" \o call.domain \o "_analysis_task",
                domain |-> call.domain,
                description |-> TaskDescription(call.domain, user_context)]
    /\ UNCHANGED <<api_key, environ, user_context, backend, pc, trace, report, earlier>>

NextBuild == CreateTaskCall

SpecBuild == InitBuild /\ [][NextBuild]_vars

TaskBuilt == call.fn # "pending"

-----------------------------------------------------------------------------
(* C21 *)

\* The line of the description that shows a field: what precedes the value and what
\* follows it.
FieldPlaces ==
    [health |->
        [stress_level |-> <<"- Stress Level: ", "/10\n">>,
         sleep_hours |-> <<"- Sleep Pattern: ", " hours\n">>,
         exercise_frequency |-> <<"- Exercise Frequency: ", "\n">>,
         problem |-> <<"- Problem: ", "\n">>],
     finance |->
        [monthly_budget |-> <<"- Monthly Budget: $", "\n">>,
         current_expenses |-> <<"- Current Expenses: $", "\n">>,
         financial_goals |-> <<"- Financial Goals: ", "\n">>,
         problem |-> <<"- Problem: ", "\n">>],
     study |->
        [exam_date |-> <<"- Upcoming Exam: ", " (">>,
         days_until_exam |-> <<" (", " days from now)\n">>,
         current_study_hours |-> <<"- Current Study Hours: ", "/day\n">>,
         subjects |-> <<"- Subjects/Topics: ", "\n">>,
         problem |-> <<"- Problem: ", "\n">>]]

Shows(description, place, value) == StrContains(description, place[1] \o value \o place[2])

\* C21: for each domain and every context with any subset of its fields missing, the
\* task is built and every missing field of the domain is shown as "Not specified",
\* while a present field is shown with its value.
C21_MissingFieldsNotSpecified ==
    TaskBuilt =>
        /\ Len(call.description) > 0
        /\ \A key \in DOMAIN FieldPlaces[call.domain] :
              Shows(call.description, FieldPlaces[call.domain][key],
                    IF key \in DOMAIN user_context
                    THEN Field(user_context, key, "")
                    ELSE "Not specified")

\* The study task of a context without exam fields: the exam is "0 days from now".
C21_Witness ==
    /\ TaskBuilt
    /\ call.domain = "study"
    /\ "days_until_exam" \notin DOMAIN user_context
    /\ "exam_date" \notin DOMAIN user_context
    /\ "problem" \notin DOMAIN user_context
    /\ StrContains(call.description, "- Upcoming Exam: Not specified (0 days from now)\n")
    /\ StrContains(call.description, "- Problem: No specific problem mentioned\n")

-----------------------------------------------------------------------------
(* C22 *)

\* C22: no step of a run changes the user context, and the user_context field of the
\* returned report is the context the crew was constructed with.
C22_ContextReadOnly ==
    /\ [][user_context' = user_context]_vars
    /\ [](Done => report.user_context = user_context)

\* A report made from a context with fields missing: it carries the context as it was
\* given, without the defaults the texts were rendered with.
C22_Witness ==
    /\ Done
    /\ user_context = [sleep_hours |-> 5, monthly_budget |-> 1200]
    /\ report.user_context = [sleep_hours |-> 5, monthly_budget |-> 1200]
    /\ StrContains(report.health, "Current stress: 5/10")

-----------------------------------------------------------------------------
(* C24 *)

KeywordRule(line) == \E w \in ConnectiveKeywords : MentionsCI(line, w)

PairRule(line) ==
    \/ MentionsCI(line, "stress") /\ (MentionsCI(line, "study") \/ MentionsCI(line, "finance"))
    \/ MentionsCI(line, "budget") /\ (MentionsCI(line, "health") \/ MentionsCI(line, "study"))
    \/ MentionsCI(line, "health") /\ (MentionsCI(line, "study") \/ MentionsCI(line, "finance"))

\* The positions of the lines of text that satisfy a rule.
KeywordPlaces(text) == {i \in 1..Len(LinesOf(text)) : KeywordRule(LinesOf(text)[i])}
PairPlaces(text) == {i \in 1..Len(LinesOf(text)) : PairRule(LinesOf(text)[i])}

\* How many entries of the list are the text x.
Occurrences(list, x) == Cardinality({i \in 1..Len(list) : list[i] = x})

\* C24 as stated: a line is selected by each rule it satisfies, so the combined list has
\* one entry per line and rule: as many entries as there are lines satisfying the
\* keyword rule plus lines satisfying a co-occurrence rule.
C24_SelectedByEachRule ==
    (Extracted /\ ~EmptyText) =>
        Len(call.cross_domain_lines)
          = Cardinality(KeywordPlaces(call.coordination_output))
            + Cardinality(PairPlaces(call.coordination_output))

\* C24 amended: a line is selected once, whether it satisfies one rule or both, and
\* nothing is deduplicated: the list has one entry per line satisfying some rule, and a
\* text is in the list as many times as there are such lines that carry it.
C24_OncePerLine ==
    (Extracted /\ ~EmptyText) =>
        LET text == call.coordination_output
            places == KeywordPlaces(text) \cup PairPlaces(text)
        IN /\ Len(call.cross_domain_lines) = Cardinality(places)
           /\ \A i \in places :
                 Occurrences(call.cross_domain_lines, StrStrip(LinesOf(text)[i]))
                   = Cardinality({j \in places :
                                     StrStrip(LinesOf(text)[j]) = StrStrip(LinesOf(text)[i])})

\* A text of two equal lines that satisfy both the keyword rule and a co-occurrence
\* rule: two entries, one per line.
C24_Witness ==
    /\ Extracted
    /\ call.coordination_output = LineBecause \o "\n" \o LineBecause
    /\ KeywordRule(LineBecause) /\ PairRule(LineBecause)
    /\ call.cross_domain_lines = <<LineBecause, LineBecause>>

-----------------------------------------------------------------------------
(* Two sessions in one process, each with its own LifeOpsCrew *)

\* The process holds one os.environ; every session has its own crew, with its own
\* user context, position, trace and report.
Sessions == {1, 2}

SessionContexts == {ScenarioContext, CalmContext, [stress_level |-> 9]}

InitSessions ==
    /\ api_key \in {ValidKey, PlaceholderKey}
    /\ environ = {}
    /\ user_context \in [Sessions -> SessionContexts]
    /\ backend \in {AllOk(ExampleText), [AllOk(ExampleText) EXCEPT !.health = "raise"]}
    /\ pc = [s \in Sessions |-> "new"]
    /\ trace = [s \in Sessions |-> <<>>]
    /\ report = [s \in Sessions |-> NoReport]
    /\ call = NoCall
    /\ earlier = NoReport

\* LifeOpsCrew.__init__ in session s
ConstructIn(s) ==
    /\ pc[s] = "new"
    /\ environ' = environ \cup OpenAIKeys
    /\ IF KeyRefused(api_key)
       THEN /\ pc' = [pc EXCEPT ![s] = "config_error"]
            /\ trace' = [trace EXCEPT ![s] = Append(@, "ValueError")]
       ELSE /\ pc' = [pc EXCEPT ![s] = "idle"]
            /\ trace' = [trace EXCEPT ![s] = Append(@, "constructed")]
    /\ UNCHANGED <<api_key, user_context, backend, report, call, earlier>>

KickoffIn(s) ==
    /\ pc[s] = "idle"
    /\ pc' = [pc EXCEPT ![s] = "health"]
    /\ trace' = [trace EXCEPT ![s] = Append(@, "kickoff")]
    /\ UNCHANGED <<api_key, environ, user_context, backend, report, call, earlier>>

CreateDomainTaskIn(s) ==
    /\ pc[s] \in {"health", "finance", "study"}
    /\ \E built \in BOOLEAN :
          IF built
          THEN /\ pc' = [pc EXCEPT ![s] = NextTask(pc[s])]
               /\ trace' = [trace EXCEPT ![s] = Append(@, "create_" \o pc[s] \o "_task")]
          ELSE /\ pc' = [pc EXCEPT ![s] = "except"]
               /\ trace' = [trace EXCEPT ![s] = Append(@, "raise_in_create_" \o pc[s] \o "_task")]
    /\ UNCHANGED <<api_key, environ, user_context, backend, report, call, earlier>>

CoordinateAndRunIn(s) ==
    /\ pc[s] = "coordination"
    /\ IF ~CoordinationCallBinds
       THEN /\ pc' = [pc EXCEPT ![s] = "except"]
            /\ trace' = [trace EXCEPT
                           ![s] = Append(@, "TypeError_in_create_life_coordination_task")]
            /\ UNCHANGED report
       ELSE \E execution_time \in Durations :
               LET r == RunAndExtract(user_context[s], backend, execution_time)
               IN /\ pc' = [pc EXCEPT ![s] = "done"]
                  /\ trace' = [trace EXCEPT
                                 ![s] = @ \o <<"create_life_coordination_task", "Crew">>
                                          \o r.calls]
                  /\ report' = [report EXCEPT ![s] = r.results]
    /\ UNCHANGED <<api_key, environ, user_context, backend, call, earlier>>

KickoffExceptIn(s) ==
    /\ pc[s] = "except"
    /\ pc' = [pc EXCEPT ![s] = "done"]
    /\ trace' = [trace EXCEPT ![s] = @ \o <<"except", "_create_fallback_response">>]
    /\ report' = [report EXCEPT ![s] = FallbackResponse(user_context[s])]
    /\ UNCHANGED <<api_key, environ, user_context, backend, call, earlier>>

\* The steps of the two sessions interleave in any order.
NextSessions ==
    \E s \in Sessions :
        \/ ConstructIn(s)
        \/ KickoffIn(s)
        \/ CreateDomainTaskIn(s)
        \/ CoordinateAndRunIn(s)
        \/ KickoffExceptIn(s)

SpecSessions == InitSessions /\ [][NextSessions]_vars

-----------------------------------------------------------------------------
(* C25 *)

\* The session that takes the step from the current state to the next.
Steps(s) == pc'[s] # pc[s]

\* C25: two runs of different sessions, interleaved in any order, do not interfere: no
\* step writes process-wide state, a step of one session changes nothing of the other,
\* and the report of each run is the one the run produces alone.
C25_NoInterference ==
    /\ [][environ' = environ]_vars
    /\ [][\A s \in Sessions :
             ~Steps(s) => /\ trace'[s] = trace[s]
                          /\ report'[s] = report[s]
                          /\ user_context'[s] = user_context[s]]_vars
    /\ [](\A s \in Sessions :
             pc[s] = "done" => report[s] = FallbackResponse(user_context[s]))

\* Both runs are over, each with the report of its own context, and the two variables
\* of os.environ have been written.
C25_Witness ==
    /\ pc = [s \in Sessions |-> "done"]
    /\ user_context[1] = ScenarioContext
    /\ user_context[2] = CalmContext
    /\ report[1] = FallbackResponse(ScenarioContext)
    /\ report[2] = FallbackResponse(CalmContext)
    /\ environ = {"OPENAI_API_KEY", "OPENAI_MODEL_NAME"}

-----------------------------------------------------------------------------
(* app.main: the script passes of one browser session *)

\* Clicks on the Run button in one session.
MaxClicks == 3

\* What the form hands to the script on a pass.
AppContexts == {ScenarioContext, CalmContext, [ScenarioContext EXCEPT !.stress_level = 5]}

\* st.session_state before initialize_session_state has run
EmptySessionState == [initialized |-> FALSE, processing |-> FALSE, api_key_available |-> FALSE]

\* What crew.kickoff() returns in the analysis block.
KickoffResult(ctx) ==
    IF CoordinationCallBinds
    THEN RunAndExtract(ctx, AllOk(ExampleText), 2).results
    ELSE FallbackResponse(ctx)

\* In this specification report is st.session_state.analysis_results (NoReport for
\* None), call is the rest of st.session_state, user_context is user_inputs, trace is
\* what the current pass has done so far, pc is the place of the script, and earlier
\* counts the clicks and the runs of the orchestrator.
InitApp ==
    /\ api_key \in {ValidKey, KeyUnset, "", PlaceholderKey}
    /\ environ = OpenAIKeys
    /\ user_context \in AppContexts
    /\ backend = NoBackend
    /\ pc = "ready"
    /\ trace = <<>>
    /\ report = NoReport
    /\ call = EmptySessionState
    /\ earlier = [clicks |-> 0, runs |-> 0]

\* initialize_session_state(): a key the session does not have yet gets its first value.
InitializeSessionState(state) ==
    IF state.initialized THEN state
    ELSE [initialized |-> TRUE, processing |-> FALSE,
          api_key_available |-> ~(api_key = KeyUnset \/ api_key = "" \/ api_key = PlaceholderKey)]

\* A pass that stops at the API key check: the error is shown and main() returns.
ScriptKeyMissing ==
    /\ pc = "ready"
    /\ ~InitializeSessionState(call).api_key_available
    /\ call' = InitializeSessionState(call)
    /\ trace' = <<"api_key_error">>
    /\ UNCHANGED <<api_key, environ, user_context, backend, pc, report, earlier>>

\* A pass from its start to the end of the sidebar: the inputs are stored and a click on
\* the button sets processing.
ScriptSidebar ==
    /\ pc = "ready"
    /\ InitializeSessionState(call).api_key_available
    /\ \E user_inputs \in AppContexts, run_clicked \in BOOLEAN :
          /\ run_clicked => earlier.clicks < MaxClicks
          /\ user_context' = user_inputs
          /\ call' = [InitializeSessionState(call) EXCEPT
                         !.processing = IF run_clicked THEN TRUE ELSE @]
          /\ trace' = IF run_clicked THEN <<"run_clicked">> ELSE <<>>
          /\ earlier' = [earlier EXCEPT !.clicks = IF run_clicked THEN @ + 1 ELSE @]
    /\ pc' = "analysis"
    /\ UNCHANGED <<api_key, environ, backend, report>>

\* The analysis block that leaves processing set when the run raises.
AnalysisBlock_processingKept ==
    /\ pc = "analysis"
    /\ IF call.processing
       THEN \E raised \in BOOLEAN :
               IF raised
               THEN /\ trace' = trace \o <<"LifeOpsCrew", "error">>
                    /\ UNCHANGED <<report, call>>
               ELSE /\ trace' = trace \o <<"LifeOpsCrew", "kickoff", "success">>
                    /\ report' = KickoffResult(user_context)
                    /\ call' = [call EXCEPT !.processing = FALSE]
       ELSE UNCHANGED <<trace, report, call>>
    /\ earlier' = [earlier EXCEPT !.runs = IF call.processing THEN @ + 1 ELSE @]
    /\ pc' = "results"
    /\ UNCHANGED <<api_key, environ, user_context, backend>>

\* The analysis block that forgets the stored results when the run raises.
AnalysisBlock_resultsCleared ==
    /\ pc = "analysis"
    /\ IF call.processing
       THEN \E raised \in BOOLEAN :
               IF raised
               THEN /\ trace' = trace \o <<"LifeOpsCrew", "error">>
                    /\ report' = NoReport
                    /\ call' = [call EXCEPT !.processing = FALSE]
               ELSE /\ trace' = trace \o <<"LifeOpsCrew", "kickoff", "success">>
                    /\ report' = KickoffResult(user_context)
                    /\ call' = [call EXCEPT !.processing = FALSE]
       ELSE UNCHANGED <<trace, report, call>>
    /\ earlier' = [earlier EXCEPT !.runs = IF call.processing THEN @ + 1 ELSE @]
    /\ pc' = "results"
    /\ UNCHANGED <<api_key, environ, user_context, backend>>

\* if st.session_state.processing: the crew is built and run inside try; building it
\* may raise (kickoff itself returns a report whatever happens); either way processing
\* is set back to False.
AnalysisBlock ==
    /\ pc = "analysis"
    /\ IF call.processing
       THEN \E raised \in BOOLEAN :
               IF raised
               THEN /\ trace' = trace \o <<"LifeOpsCrew", "error">>
                    /\ call' = [call EXCEPT !.processing = FALSE]
                    /\ UNCHANGED report
               ELSE /\ trace' = trace \o <<"LifeOpsCrew", "kickoff", "success">>
                    /\ report' = KickoffResult(user_context)
                    /\ call' = [call EXCEPT !.processing = FALSE]
       ELSE UNCHANGED <<trace, report, call>>
    /\ earlier' = [earlier EXCEPT !.runs = IF call.processing THEN @ + 1 ELSE @]
    /\ pc' = "results"
    /\ UNCHANGED <<api_key, environ, user_context, backend>>

\* The rest of the pass: the results are displayed if there are any and processing is
\* off, the hint is shown if there are none; then the script ends.
DisplayBlock ==
    /\ pc = "results"
    /\ trace' = IF report # NoReport /\ ~call.processing THEN Append(trace, "display")
                ELSE IF ~call.processing /\ report = NoReport THEN Append(trace, "hint")
                ELSE trace
    /\ pc' = "ready"
    /\ UNCHANGED <<api_key, environ, user_context, backend, report, call, earlier>>

NextApp ==
    \/ ScriptKeyMissing
    \/ ScriptSidebar
    \/ AnalysisBlock
    \/ DisplayBlock

SpecApp == InitApp /\ [][NextApp]_vars

-----------------------------------------------------------------------------
(* C26 *)

PassEvents == {trace[i] : i \in 1..Len(trace)}

-----------------------------------------------------------------------------
(* C27 *)

\* The step is the analysis block ending in its except branch.
AnalysisRaised == pc = "analysis" /\ pc' = "results" /\ trace' = trace \o <<"LifeOpsCrew", "error">>

\* C27: when building or running the orchestrator raises in the analysis block,
\* analysis_results is left as it was, None or the report of the last successful run,
\* and a report that is there is displayed by the same pass.
C27_ResultsKeptOnError ==
    /\ [][AnalysisRaised => report' = report]_vars
    /\ []((pc = "ready" /\ "error" \in PassEvents /\ report # NoReport)
             => "display" \in PassEvents)
    /\ []((pc = "ready" /\ "error" \in PassEvents /\ report = NoReport)
             => "display" \notin PassEvents)

\* After a run that raised, the pass displays the report of an earlier run, made from
\* other inputs than the ones of this pass.
C27_Witness ==
    /\ pc = "ready"
    /\ trace = <<"run_clicked", "LifeOpsCrew", "error", "display">>
    /\ user_context = CalmContext
    /\ report = KickoffResult(ScenarioContext)
    /\ report.user_context # user_context

-----------------------------------------------------------------------------
(* C28 *)

\* C28: validate_user_inputs is idempotent and key-preserving: validating the result
\* again gives the result, the result has exactly the keys of the input, and the input
\* mapping is not modified by the call.
C28_Idempotent ==
    /\ [](Validated =>
            /\ ValidateUserInputs(call.validated) = call.validated
            /\ DOMAIN call.validated = DOMAIN call.inputs)
    /\ [][call'.inputs = call.inputs]_vars

\* Hours given as the float 30.5 beside the other fields: 24 after one call and after two,
\* and the input still holds 30.5.
C28_Witness ==
    /\ Validated
    /\ DOMAIN call.inputs = DOMAIN FormInputs
    /\ call.inputs.sleep_hours = FloatValue(305)
    /\ call.validated.sleep_hours = IntValue(24)
    /\ ValidateUserInputs(call.validated).sleep_hours = IntValue(24)

-----------------------------------------------------------------------------
(* C29 *)

\* The default kickoff hands to _get_task_output for a domain.
DefaultSentence(domain) ==
    CASE domain = "health" -> "Health analysis completed successfully."
      [] domain = "finance" -> "Finance analysis completed successfully."
      [] domain = "study" -> "Study analysis completed successfully."

\* The backend raises at the task of the domain or at one before it: the task of the
\* domain has produced no output.
FailedBefore(domain) ==
    \E i, j \in 1..3 : j <= i /\ TaskOrder[i] = domain /\ backend[TaskOrder[j]] = "raise"

\* C29: when the backend pipeline fails before a domain task has produced output, the
\* report's field for that domain is the default "<Domain> analysis completed
\* successfully." that _get_task_output returns for a task without output, not a text
\* derived from the user context.
C29_DefaultSentenceOnFailure ==
    Done => \A domain \in {"health", "finance", "study"} :
               FailedBefore(domain) => report[domain] = DefaultSentence(domain)

\* The backend raises at the health task: the health field of the report is the
\* template rendered from the context.
C29_Witness ==
    /\ Done
    /\ backend.health = "raise"
    /\ user_context = ScenarioContext
    /\ report.health = HealthAdvice(ScenarioContext)
    /\ report.health # "Health analysis completed successfully."
    /\ GetTaskOutput([output |-> ""], "Health analysis completed successfully.")
         = "Health analysis completed successfully."

====
